---- MODULE Spec2Model ----
(***************************************************************************)
(* The time-windowed paginated fetches of automatedContentCreator:         *)
(*   fetch_medias_since   (src/scrapeInstagramPage.py)                     *)
(*   fetch_subreddit_new  (src/scrape_reddit.py)                           *)
(* The page source (instagrapi client, Reddit HTTP API) is the environment: *)
(* every response it can give is a nondeterministic choice.                 *)
(***************************************************************************)
EXTENDS Integers, Sequences, FiniteSets, TLC

(***************************************************************************)
(* Bounds of the model.                                                    *)
(***************************************************************************)
\* largest max_fetch (--max-fetch) the caller passes
MaxFetch == 5
\* the page cap: fetch_medias_since fixes max_pages = 200; the loop reads it
\* only in the guard page_count < max_pages, and the model scales it down so
\* that the cap is reached.  Also the largest max_pages passed to
\* fetch_subreddit_new.
MaxPages == 4
\* most items one page holds
MaxPageLen == 3
\* the posts a subreddit's listing holds in all, at most
MaxPosts == 4
\* the cutoff of the window, as a point on the integer time axis
cutoff_dt == 2

(***************************************************************************)
(* Program constants.                                                      *)
(***************************************************************************)
\* _api_page_fetch: retries = 4
retries == 4
\* _api_page_fetch: base_backoff = 0.6 s, in tenths of a second
base_backoff == 6
\* fetch_medias_since: page_sleep = 0.6 s, in tenths of a second
page_sleep == 6

\* fetch_medias_since: max_pages = 200 (scaled, see MaxPages)
max_pages == MaxPages

\* the longest list a fetch hands to a ranking pass
MaxItems == 3

\* the largest top a request asks for
MaxTop == 2

\* the longest list of medias handed to the Instagram ranking pass
MaxMedias == 2

\* the messages a channel's iterator yields in all, at most
MaxRead == 4

\* the largest counter value drawn for an item
MaxCounter == 2

\* the default weights (1.5 and 1.0), in tenths
default_alpha == 15
default_beta == 10

\* the other defaults of the request models, weights in tenths
default_days == 3
reddit_gamma == 20
ig_gamma == 5
ig_delta == 20
tg_delta == 10
tg_gamma == 20

\* award_scale as the callers of the scoring functions pass it
reddit_award_scale == 10
telegram_award_scale == 1

(***************************************************************************)
(* Values.  An item is its timestamp (taken_at / created_utc): 0 stands    *)
(* for a missing timestamp (None), the others are points in time just      *)
(* before the cutoff and at the cutoff.                                     *)
(***************************************************************************)
Items == {0, cutoff_dt - 1, cutoff_dt}

SeqsUpTo(S, n) == UNION {[1..k -> S] : k \in 0..n}

\* the one-element page <<-1>> stands for the adapter returning None as page
NonePage == <<0 - 1>>
RawPages == SeqsUpTo(Items, MaxPageLen) \cup {NonePage}

\* cursors are opaque strings; "None" stands for Python's None, the value the
\* adapter gives when no further page exists (the empty string is handled
\* alike by `new_cursor or ""`)
RawCursors == {"None", "A", "B"}

\* a Reddit post is its created_utc: 0 stands for a post without the field
\* (`post.get("created_utc", 0)`)
Posts == {0, cutoff_dt - 1, cutoff_dt, cutoff_dt + 1}
Listings == SeqsUpTo(Posts, MaxPageLen)

\* the HTTP status codes of a listing response
StatusCodes == {200, 401, 500}

\* the kinds of exception a page request raises
ErrorKinds == {"transient", "auth"}

VARIABLES
    prog,            \* which fetch this run executes
    pc,              \* position of the flow of control
    raised,          \* an exception propagated out of the fetch to its caller
    returned,        \* the list the fetch returned
    stop_reason,     \* history: which exit ended the fetch
    delivered,       \* history: every item the page source delivered, in order
    \* fetch_medias_since
    max_fetch, fetched, end_cursor, prev_end_cursor, page_count, stop_all,
    attempt,         \* _api_page_fetch: the attempt about to be made
    sleeps,          \* _api_page_fetch: the backoff sleeps of this page request
    slept,           \* history: total of the inter-page sleeps
    same_cursor_at,  \* history: page_count when the adapter returned the same
                     \* non-empty cursor for the second time in a row (0: never)
    adapter,         \* the page source: <<>> when it may answer anything, or a
                     \* function from cursors to the answer it gives for each
    cursor_sent,     \* history: the cursor the latest page request carried
    cursor_returned, \* history: the cursor the latest page answer carried
    outstanding,     \* history: the page requests issued and not yet answered
    \* fetch_subreddit_new
    r_max_pages,     \* the parameter max_pages
    collected, pages, after,
    requests,        \* history: the number of requests.get calls
    same_after_at,   \* history: `requests` when the listing returned the same
                     \* non-empty `after` for the second time in a row (0: never)
    \* the scoring functions
    metrics,         \* the raw counters of the item being scored
    weights,         \* the weights alpha, beta, gamma, delta
    engagement,      \* the score the last call returned
    increased,       \* history: the counter the second call got increased by one
    engagement_before,  \* history: the score the first call returned
    \* the handlers of app/main.py and scrape_channel
    req,             \* the request body
    net_calls,       \* history: the network calls made so far
    items,           \* the list being scored and ranked (posts, items)
    response,        \* what the handler answered
    medias_n,        \* len(medias) as fetch_medias_since returned it (-1: not yet)
    skipped,         \* history: the medias skipped as videos
    primary_views,   \* history: the view count the fields of the last media gave
    looked_up,       \* history: insights were requested for the last media
    ranked,          \* history: the ranking pass has run
    connected,       \* the Telegram client is connected
    disconnects,     \* history: the calls of client.disconnect()
    msgs_read,       \* history: the dates of the messages the iterator yielded
    jsonl_lines,     \* the entries appended to the file out_jsonl
    json_written,    \* the file out_json was written
    tg_error         \* history: what ended scrape_channel early ("": nothing)

vars == <<prog, pc, raised, returned, stop_reason, delivered, max_fetch, fetched,
          end_cursor, prev_end_cursor, page_count, stop_all, attempt,
          sleeps, slept, same_cursor_at, adapter, cursor_sent,
          cursor_returned, outstanding, r_max_pages, collected, pages, after,
          requests, same_after_at, metrics, weights, engagement, increased,
          engagement_before, req, net_calls, items, response, medias_n,
          skipped, primary_views, looked_up, ranked, connected, disconnects,
          msgs_read, jsonl_lines, json_written, tg_error>>

reddit_vars == <<r_max_pages, collected, pages, after, requests, same_after_at>>
ig_vars == <<max_fetch, fetched, end_cursor, prev_end_cursor, page_count,
             stop_all, attempt, sleeps, slept, same_cursor_at, adapter,
             cursor_sent, cursor_returned, outstanding>>
chain == <<cursor_sent, cursor_returned, outstanding>>

ig_locals == <<max_fetch, fetched, end_cursor, prev_end_cursor, page_count,
               stop_all, slept>>
try_locals == <<attempt, sleeps>>
score_vars == <<metrics, weights, engagement, increased, engagement_before>>

api_vars == <<req, net_calls, items, response, medias_n, skipped,
              primary_views, looked_up, ranked, connected, disconnects,
              msgs_read, jsonl_lines, json_written, tg_error>>
ig_hist == <<medias_n, skipped, primary_views, looked_up>>
tg_client == <<connected, disconnects>>
tg_hist == <<msgs_read, jsonl_lines, json_written, tg_error>>
tg_vars == <<tg_client, tg_hist>>

\* the variables of the two fetches
fetch_vars == <<raised, returned, stop_reason, delivered, ig_vars, reddit_vars>>

\* what a fetch leaves alone: the variables of the other programs
other_vars == <<score_vars, api_vars>>

(***************************************************************************)
(* fetch_medias_since                                                      *)
(***************************************************************************)
\* `page or []`
OrList(p) == IF p = NonePage \/ p = <<>> THEN <<>> ELSE p

\* `new_cursor or ""`
OrStr(c) == IF c = "None" \/ c = "" THEN "" ELSE c

\* mutant: a missing timestamp compared like a date (taken_at < cutoff_dt
\* without the `taken_at and`)
OlderThanCutoffOrMissing(taken_at) == taken_at < cutoff_dt

\* mutant: the comparison with the cutoff made inclusive (taken_at <= cutoff_dt)
OlderThanCutoffInclusive(taken_at) == taken_at # 0 /\ taken_at <= cutoff_dt

\* line 238: taken_at and taken_at < cutoff_dt
OlderThanCutoff(taken_at) == taken_at # 0 /\ taken_at < cutoff_dt

\* mutant: the cap test off by one (len(fetched) > max_fetch)
CapReachedLate(n, mf) == n > mf

\* line 242: len(fetched) >= max_fetch
CapReached(n, mf) == n >= mf

\* mutant: the page loop without its page cap
WhileCondNoPageCap(stop, count, n, mf) == ~stop /\ n < mf

\* line 217: the guard of the page loop
WhileCond(stop, count, n, mf) == ~stop /\ count < max_pages /\ n < mf

\* line 247: not new_end_cursor or new_end_cursor == prev_end_cursor
CursorStuck(new, prev) == new = "" \/ new = prev

\* mutant: exponential backoff, base_backoff * 2 ** (attempt - 1)
BackoffExponential(k) == base_backoff * 2 ^ (k - 1)

\* mutant: the request carries the cursor before the last one
RequestCursorPrev == prev_end_cursor

\* line 220: the cursor argument of _api_page_fetch(user_id, end_cursor)
RequestCursor == end_cursor

\* line 207: what cl.user_medias_paginated_v1 answers for a cursor
Answers(cursor) ==
    IF adapter = <<>> THEN [page : RawPages, cursor : RawCursors]
    ELSE {adapter[cursor]}

\* line 213: time.sleep(base_backoff * attempt)
Backoff(k) == base_backoff * k

\* mutant: each kept item put at the front of the list (fetched.insert(0, m))
RECURSIVE ForMediaFront(_, _, _, _)
ForMediaFront(page, i, f, mf) ==
    IF i > Len(page)
    THEN [fetched |-> f, stop_all |-> FALSE, why |-> "none"]
    ELSE IF OlderThanCutoff(page[i])
    THEN [fetched |-> f, stop_all |-> TRUE, why |-> "window"]
    ELSE LET g == <<page[i]>> \o f IN
         IF CapReached(Len(g), mf)
         THEN [fetched |-> g, stop_all |-> TRUE, why |-> "cap_items"]
         ELSE ForMediaFront(page, i + 1, g, mf)

\* lines 233-244: the loop over the items of one page, from item i on, with
\* f the list fetched so far
RECURSIVE ForMedia(_, _, _, _)
ForMedia(page, i, f, mf) ==
    IF i > Len(page)
    THEN [fetched |-> f, stop_all |-> FALSE, why |-> "none"]
    ELSE IF OlderThanCutoff(page[i])
    THEN [fetched |-> f, stop_all |-> TRUE, why |-> "window"]
    ELSE LET g == Append(f, page[i]) IN
         IF CapReached(Len(g), mf)
         THEN [fetched |-> g, stop_all |-> TRUE, why |-> "cap_items"]
         ELSE ForMedia(page, i + 1, g, mf)

\* mutant: a stuck cursor raised as an error instead of ending the loop
ReturnUnlessStuck(why) ==
    /\ pc' = "done"
    /\ stop_reason' = why
    /\ raised' = (why = "repeated_cursor")
    /\ returned' = IF why = "repeated_cursor" THEN <<>> ELSE fetched'

\* line 257 (return fetched), reached by a break or by the loop guard
Return(why) ==
    /\ pc' = "done"
    /\ returned' = fetched'
    /\ stop_reason' = why
    /\ raised' = FALSE

\* line 192: cl.user_info_by_username_v1(target_username), outside any try
UserInfo ==
    /\ UNCHANGED other_vars
    /\ prog = "instagram" /\ pc = "user_info"
    /\ \/ /\ pc' = "while"
          /\ UNCHANGED <<raised, returned, stop_reason>>
       \/ /\ pc' = "done"
          /\ raised' = TRUE
          /\ returned' = <<>>
          /\ stop_reason' = "user_info_raised"
    /\ UNCHANGED <<prog, delivered, ig_locals, try_locals, same_cursor_at,
                   adapter, chain, reddit_vars>>

\* lines 217-218: the loop guard, page_count += 1 and the call of
\* _api_page_fetch; when the guard fails, lines 256-257
While ==
    /\ UNCHANGED other_vars
    /\ prog = "instagram" /\ pc = "while"
    /\ IF WhileCond(stop_all, page_count, Len(fetched), max_fetch)
       THEN /\ page_count' = page_count + 1
            /\ pc' = "attempt"
            /\ attempt' = 1
            /\ cursor_sent' = RequestCursor
            /\ outstanding' = outstanding + 1
            /\ UNCHANGED <<raised, returned, stop_reason, fetched>>
       ELSE /\ UNCHANGED <<page_count, attempt, fetched, cursor_sent, outstanding>>
            /\ Return(IF stop_reason # "none" THEN stop_reason
                      ELSE IF ~(Len(fetched) < max_fetch) THEN "cap_items"
                      ELSE "cap_pages")
    /\ UNCHANGED <<prog, delivered, max_fetch, end_cursor, prev_end_cursor,
                   stop_all, slept, sleeps, same_cursor_at, adapter,
                   cursor_returned, reddit_vars>>

\* mutant: after the last attempt failed the retry loop starts over instead of
\* re-raising
AttemptRaisesStartsOver(kind) ==
    /\ UNCHANGED other_vars
    /\ prog = "instagram" /\ pc = "attempt"
    /\ kind \in ErrorKinds
    /\ IF attempt = retries
       THEN /\ attempt' = 1
            /\ sleeps' = <<>>
            /\ UNCHANGED <<pc, raised, returned, stop_reason, fetched, outstanding>>
       ELSE /\ sleeps' = Append(sleeps, base_backoff * attempt)
            /\ attempt' = attempt + 1
            /\ UNCHANGED <<pc, raised, returned, stop_reason, fetched, outstanding>>
    /\ UNCHANGED <<prog, delivered, max_fetch, end_cursor, prev_end_cursor,
                   page_count, stop_all, slept, same_cursor_at, adapter,
                   cursor_sent, cursor_returned, reddit_vars>>

\* mutant: the last failure is not caught by the page loop and leaves
\* fetch_medias_since as an exception
AttemptRaisesUncaught(kind) ==
    /\ UNCHANGED other_vars
    /\ prog = "instagram" /\ pc = "attempt"
    /\ kind \in ErrorKinds
    /\ IF attempt = retries
       THEN /\ UNCHANGED <<attempt, sleeps, fetched>>
            /\ outstanding' = outstanding - 1
            /\ pc' = "done"
            /\ raised' = TRUE
            /\ returned' = <<>>
            /\ stop_reason' = "failed"
       ELSE /\ sleeps' = Append(sleeps, base_backoff * attempt)
            /\ attempt' = attempt + 1
            /\ UNCHANGED <<pc, raised, returned, stop_reason, fetched, outstanding>>
    /\ UNCHANGED <<prog, delivered, max_fetch, end_cursor, prev_end_cursor,
                   page_count, stop_all, slept, same_cursor_at, adapter,
                   cursor_sent, cursor_returned, reddit_vars>>

\* mutant: every attempt counted as a page (page_count += 1 inside the retry
\* loop)
AttemptRaisesCounted(kind) ==
    /\ UNCHANGED other_vars
    /\ prog = "instagram" /\ pc = "attempt"
    /\ kind \in ErrorKinds
    /\ IF attempt = retries
       THEN /\ UNCHANGED <<attempt, sleeps, fetched, page_count>>
            /\ outstanding' = outstanding - 1
            /\ pc' = "done"
            /\ raised' = FALSE
            /\ returned' = fetched
            /\ stop_reason' = "failed"
       ELSE /\ sleeps' = Append(sleeps, base_backoff * attempt)
            /\ attempt' = attempt + 1
            /\ page_count' = page_count + 1
            /\ UNCHANGED <<pc, raised, returned, stop_reason, fetched, outstanding>>
    /\ UNCHANGED <<prog, delivered, max_fetch, end_cursor, prev_end_cursor,
                   stop_all, slept, same_cursor_at, adapter,
                   cursor_sent, cursor_returned, reddit_vars>>

\* lines 209-213 and 221-223: an attempt raises an exception of the given
\* kind (`except Exception` does not look at it); the last attempt re-raises,
\* the loop of fetch_medias_since catches that and breaks
AttemptRaises(kind) ==
    /\ UNCHANGED other_vars
    /\ prog = "instagram" /\ pc = "attempt"
    /\ kind \in ErrorKinds
    /\ IF attempt = retries
       THEN /\ UNCHANGED <<attempt, sleeps, fetched>>
            /\ outstanding' = outstanding - 1
            /\ Return("failed")
       ELSE /\ sleeps' = Append(sleeps, Backoff(attempt))
            /\ attempt' = attempt + 1
            /\ UNCHANGED <<pc, raised, returned, stop_reason, fetched, outstanding>>
    /\ UNCHANGED <<prog, delivered, max_fetch, end_cursor, prev_end_cursor,
                   page_count, stop_all, slept, same_cursor_at, adapter,
                   cursor_sent, cursor_returned, reddit_vars>>

AttemptFails == \E kind \in ErrorKinds : AttemptRaises(kind)

\* lines 207-208 and 225-254: an attempt returns a page, and the loop body
\* processes it
PageFetched ==
    /\ UNCHANGED other_vars
    /\ prog = "instagram" /\ pc = "attempt"
    /\ \E answer \in Answers(cursor_sent) :
          LET page == OrList(answer.page)
              new_end_cursor == OrStr(answer.cursor)
              r == ForMedia(page, 1, fetched, max_fetch)
          IN
          /\ delivered' = delivered \o page
          /\ cursor_returned' = answer.cursor
          /\ same_cursor_at' =
                IF same_cursor_at = 0 /\ new_end_cursor # ""
                   /\ page_count >= 2 /\ new_end_cursor = end_cursor
                THEN page_count ELSE same_cursor_at
          /\ IF page = <<>>
             THEN /\ UNCHANGED <<fetched, stop_all, end_cursor, prev_end_cursor, slept>>
                  /\ Return("exhausted")
             ELSE /\ fetched' = r.fetched
                  /\ stop_all' = r.stop_all
                  /\ IF CursorStuck(new_end_cursor, prev_end_cursor)
                     THEN /\ UNCHANGED <<end_cursor, prev_end_cursor, slept>>
                          /\ Return(IF r.why # "none" THEN r.why
                                    ELSE IF new_end_cursor = "" THEN "empty_cursor"
                                    ELSE "repeated_cursor")
                     ELSE /\ prev_end_cursor' = end_cursor
                          /\ end_cursor' = new_end_cursor
                          /\ slept' = slept + page_sleep
                          /\ pc' = "while"
                          /\ stop_reason' = r.why
                          /\ UNCHANGED <<raised, returned>>
    \* _api_page_fetch has returned: its locals are gone
    /\ attempt' = 0 /\ sleeps' = <<>>
    /\ outstanding' = outstanding - 1
    /\ UNCHANGED <<prog, max_fetch, page_count, adapter, cursor_sent, reddit_vars>>

(***************************************************************************)
(* fetch_subreddit_new                                                     *)
(***************************************************************************)
\* the cutoff as the Unix time fetch_subreddit_new is given
cutoff_ts == cutoff_dt

\* a window test that drops the posts created at the cutoff itself
InWindowStrict(created) == created > cutoff_ts

\* line 81: created >= cutoff_ts
InWindow(created) == created >= cutoff_ts

\* line 63: the guard of the page loop
RedditWhileCond(n, mp) == n < mp

\* lines 67-70: the status codes that raise RuntimeError
StatusRaises(status) == status = 401 \/ status # 200

\* lines 78-98: the loop over the children of one listing, from child i on
RECURSIVE ForChildren(_, _, _)
ForChildren(children, i, c) ==
    IF i > Len(children)
    THEN [collected |-> c, stop_early |-> FALSE]
    ELSE IF InWindow(children[i])
    THEN ForChildren(children, i + 1, Append(c, children[i]))
    ELSE [collected |-> c, stop_early |-> TRUE]

\* line 110 (return collected)
RedditReturn(why) ==
    /\ pc' = "done"
    /\ returned' = collected'
    /\ stop_reason' = why
    /\ raised' = FALSE

\* line 63: the loop guard; when it fails, line 110
RedditWhile ==
    /\ UNCHANGED other_vars
    /\ prog = "reddit" /\ pc = "r_while"
    /\ UNCHANGED <<prog, delivered, ig_vars, reddit_vars>>
    /\ IF RedditWhileCond(pages, r_max_pages)
       THEN /\ pc' = "r_get"
            /\ UNCHANGED <<raised, returned, stop_reason>>
       ELSE RedditReturn("cap_pages")

\* lines 64-108: one requests.get and the processing of its response
RedditGet ==
    /\ UNCHANGED other_vars
    /\ prog = "reddit" /\ pc = "r_get"
    /\ requests' = requests + 1
    /\ \E status \in StatusCodes :
          IF StatusRaises(status)
          THEN /\ pc' = "done"
               /\ raised' = TRUE
               /\ returned' = <<>>
               /\ stop_reason' = "http_error"
               /\ UNCHANGED <<delivered, collected, pages, after, same_after_at>>
          ELSE \E children \in Listings, raw_after \in RawCursors :
               LET r == ForChildren(children, 1, collected) IN
               /\ Len(delivered) + Len(children) <= MaxPosts
               /\ delivered' = delivered \o children
               /\ IF children = <<>>
                  THEN /\ UNCHANGED <<collected, pages, after, same_after_at>>
                       /\ RedditReturn("exhausted")
                  ELSE /\ pages' = pages + 1
                       /\ collected' = r.collected
                       /\ IF r.stop_early
                          THEN /\ UNCHANGED <<after, same_after_at>>
                               /\ RedditReturn("window")
                          ELSE /\ after' = raw_after
                               /\ same_after_at' =
                                     IF same_after_at = 0 /\ raw_after = after
                                        /\ raw_after \notin {"None", ""}
                                     THEN requests + 1 ELSE same_after_at
                               /\ IF raw_after \in {"None", ""}
                                  THEN RedditReturn("empty_cursor")
                                  ELSE /\ pc' = "r_while"
                                       /\ UNCHANGED <<raised, returned, stop_reason>>
    /\ UNCHANGED <<prog, ig_vars, r_max_pages>>

\* ------------------------------------------------------------------
\* The scoring functions: compute_engagement (scrape_reddit.py),
\* compute_engagement_telegram (scrapeTelegramChannel.py) and
\* compute_engagement_from_metrics (scrapeInstagramPage.py).
\* Scores are fixed-point numbers: weights are in tenths, logarithms in
\* thousandths, a score in ten-thousandths.
\* ------------------------------------------------------------------

\* a raw value as Python holds it: None (or an absent key), an int, or a
\* string that is no number
None == [t |-> "none", v |-> 0]
Num(n) == [t |-> "int", v |-> n]
Str == [t |-> "str", v |-> 0]

\* the raw counters drawn for the scoring functions
RawCounters == {None} \cup {Num(n) : n \in (0 - 1)..MaxCounter}

\* the weights drawn for the scoring functions, in tenths
Weights == {0 - default_beta, 0, default_alpha}

\* Python truth of a raw value
Truthy(x) == x.t = "str" \/ (x.t = "int" /\ x.v # 0)

\* x or 1
Or1(x) == IF Truthy(x) THEN x ELSE Num(1)

\* x or 0
Or0(x) == IF Truthy(x) THEN x ELSE Num(0)

\* max(0, int(x or 0)), for x None or an int
Clamp(x) == IF Or0(x).v > 0 THEN Or0(x).v ELSE 0

\* math.log10 on 1..101, in thousandths (rounded)
Log10Table == <<
    0, 301, 477, 602, 699, 778, 845, 903, 954, 1000,
    1041, 1079, 1114, 1146, 1176, 1204, 1230, 1255, 1279, 1301,
    1322, 1342, 1362, 1380, 1398, 1415, 1431, 1447, 1462, 1477,
    1491, 1505, 1519, 1531, 1544, 1556, 1568, 1580, 1591, 1602,
    1613, 1623, 1633, 1643, 1653, 1663, 1672, 1681, 1690, 1699,
    1708, 1716, 1724, 1732, 1740, 1748, 1756, 1763, 1771, 1778,
    1785, 1792, 1799, 1806, 1813, 1820, 1826, 1833, 1839, 1845,
    1851, 1857, 1863, 1869, 1875, 1881, 1886, 1892, 1898, 1903,
    1908, 1914, 1919, 1924, 1929, 1934, 1940, 1944, 1949, 1954,
    1959, 1964, 1968, 1973, 1978, 1982, 1987, 1991, 1996, 2000,
    2004>>

\* a logarithm that is flat from 2 on
Log10Flat(n) == Log10Table[IF n > 2 THEN 2 ELSE n]

\* math.log10(n)
Log10(n) == Log10Table[n]

\* scrape_reddit.py lines 112-126
compute_engagement(post, alpha, beta, gamma, award_scale) ==
    LET score == Clamp(post.score)
        num_comments == Clamp(post.num_comments)
        awards == Clamp(post.total_awards_received)
        part_votes == IF score >= 0 THEN alpha * Log10(1 + score) ELSE 0
        part_comments == beta * Log10(1 + num_comments)
        part_awards == gamma * Log10(1 + awards * award_scale)
    IN part_votes + part_comments + part_awards

\* scrapeTelegramChannel.py lines 123-134
compute_engagement_telegram(m, alpha, beta, delta, gamma, award_scale) ==
    LET v == Clamp(m.views)
        f == Clamp(m.forwards)
        r == Clamp(m.replies)
        rx == Clamp(m.reactions_total)
        part_v == IF v >= 0 THEN alpha * Log10(1 + v) ELSE 0
        part_f == beta * Log10(1 + f)
        part_r == delta * Log10(1 + r)
        part_rx == gamma * Log10(1 + rx * award_scale)
    IN part_v + part_f + part_r + part_rx

\* scrapeInstagramPage.py lines 273-276: the local function L
L(x) == Log10(1 + Clamp(x))

\* scrapeInstagramPage.py lines 271-277
compute_engagement_from_metrics(likes, comments, views, saves, alpha, beta, gamma, delta) ==
    alpha * L(likes) + beta * L(comments) + gamma * L(views) + delta * L(saves)

\* the three scoring functions and the counters each reads
Scorers == {"compute_engagement", "compute_engagement_telegram",
            "compute_engagement_from_metrics"}
CounterNames(f) ==
    IF f = "compute_engagement"
    THEN {"score", "num_comments", "total_awards_received"}
    ELSE IF f = "compute_engagement_telegram"
    THEN {"views", "forwards", "replies", "reactions_total"}
    ELSE {"likes", "comments", "views", "saves"}

\* one call of scoring function f, with the arguments its callers pass
Score(f, m, w) ==
    IF f = "compute_engagement"
    THEN compute_engagement(m, w.alpha, w.beta, w.gamma, reddit_award_scale)
    ELSE IF f = "compute_engagement_telegram"
    THEN compute_engagement_telegram(m, w.alpha, w.beta, w.delta, w.gamma,
                                     telegram_award_scale)
    ELSE compute_engagement_from_metrics(m.likes, m.comments, m.views, m.saves,
                                         w.alpha, w.beta, w.gamma, w.delta)

\* the scoring function is called on the counters drawn
Call ==
    /\ prog \in Scorers /\ pc = "s_call"
    /\ engagement' = Score(prog, metrics, weights)
    /\ pc' = "s_done"
    /\ UNCHANGED <<prog, metrics, weights, increased, engagement_before,
                   fetch_vars, api_vars>>

\* the scoring function is called again with one counter increased by one
CallIncreased ==
    /\ prog \in Scorers /\ pc = "s_done"
    /\ \E c \in DOMAIN metrics :
          /\ metrics[c].t = "int" /\ metrics[c].v < MaxCounter
          /\ metrics' = [metrics EXCEPT ![c] = Num(@.v + 1)]
          /\ increased' = c
    /\ engagement' = Score(prog, metrics', weights)
    /\ engagement_before' = engagement
    /\ pc' = "s_again"
    /\ UNCHANGED <<prog, weights, fetch_vars, api_vars>>

\* no scoring function runs
ScoreIdle ==
    /\ metrics = <<>> /\ weights = <<>> /\ engagement = 0
    /\ increased = "" /\ engagement_before = 0

\* no fetch runs
FetchIdle ==
    /\ raised = FALSE /\ returned = <<>> /\ stop_reason = "none"
    /\ delivered = <<>>
    /\ max_fetch = 0 /\ fetched = <<>> /\ end_cursor = ""
    /\ prev_end_cursor = "None" /\ page_count = 0 /\ stop_all = FALSE
    /\ attempt = 0 /\ sleeps = <<>> /\ slept = 0 /\ same_cursor_at = 0
    /\ adapter = <<>> /\ cursor_sent = "" /\ cursor_returned = ""
    /\ outstanding = 0
    /\ r_max_pages = 0 /\ collected = <<>> /\ pages = 0 /\ after = "None"
    /\ requests = 0 /\ same_after_at = 0

\* ------------------------------------------------------------------
\* The handlers of app/main.py: reddit_top, instagram_top (whose loop is
\* the ranking pass of scrapeInstagramPage.main, lines 322-379) and
\* telegram_top with scrape_channel (scrapeTelegramChannel.py).
\* A fetch is one step that hands over a list or raises; how it pages is
\* the subject of the first part of this module.
\* ------------------------------------------------------------------

Handlers == {"reddit_top", "instagram_top", "telegram_top"}

\* no answer yet
NoResponse == [status |-> 0, top |-> <<>>, count |-> 0]

\* an exception that leaves the handler: the framework answers 500
Http500 == [status |-> 500, top |-> <<>>, count |-> 0]

\* the posts a Reddit listing can hold, as fetch_subreddit_new keeps them
RedditPosts ==
    [score : {Num(n) : n \in 0..MaxCounter},
     num_comments : {None, Num(1)},
     total_awards_received : {Num(0)}]

\* the messages client.iter_messages can yield: date is 0 when missing
Messages ==
    [date : {0, cutoff_dt - 1, cutoff_dt},
     views : {None} \cup {Num(n) : n \in 1..MaxCounter}]

\* the medias fetch_medias_since can hand over
ViewAttrs == {<<None, None, None, None>>, <<None, Num(1), None, None>>}
Medias ==
    [pk : {None, Num(1), Str},
     id : {None},
     like_count : {None, Num(1), Str},
     comment_count : {Num(0)},
     view_attrs : ViewAttrs,
     is_video : BOOLEAN]

\* what cl.insights_media can answer: an exception, or a dict; views holds
\* the values under "video_view_count", "video_views", "view_count", "views"
\* and saves those under "save_count", "saves", "save" (None: key absent)
Insights ==
    [raises : {TRUE}, views : {<<None, None, None, None>>},
     saves : {<<None, None, None>>}]
    \cup
    {[raises |-> FALSE, views |-> <<None, None, None, None>>,
      saves |-> <<None, None, None>>],
     [raises |-> FALSE, views |-> <<None, None, None, Num(2)>>,
      saves |-> <<Str, Num(1), None>>]}

\* posts[: n]
PySlice(s, n) ==
    IF n >= 0
    THEN SubSeq(s, 1, IF n < Len(s) THEN n ELSE Len(s))
    ELSE SubSeq(s, 1, IF Len(s) + n > 0 THEN Len(s) + n ELSE 0)

\* list.sort(key, reverse=True) keeps equal keys in their order: x, the
\* element that comes later, goes behind every element whose key is >= its own
RECURSIVE InsertDescBeforeTies(_, _, _)
InsertDescBeforeTies(sorted, x, k) ==
    IF sorted = <<>> THEN <<x>>
    ELSE IF Head(sorted)[k] > x[k]
    THEN <<Head(sorted)>> \o InsertDescBeforeTies(Tail(sorted), x, k)
    ELSE <<x>> \o sorted

RECURSIVE InsertDesc(_, _, _)
InsertDesc(sorted, x, k) ==
    IF sorted = <<>> THEN <<x>>
    ELSE IF Head(sorted)[k] >= x[k]
    THEN <<Head(sorted)>> \o InsertDesc(Tail(sorted), x, k)
    ELSE <<x>> \o sorted

\* s back to front
ReverseSeq(s) == [i \in 1..Len(s) |-> s[Len(s) + 1 - i]]

\* mutant: the sort without reverse=True, smallest key first
RECURSIVE SortAsc(_, _)
SortAsc(s, k) ==
    IF s = <<>> THEN <<>>
    ELSE ReverseSeq(InsertDesc(ReverseSeq(SortAsc(SubSeq(s, 1, Len(s) - 1), k)),
                               s[Len(s)], k))

\* s.sort(key=lambda x: x[k], reverse=True)
RECURSIVE SortDesc(_, _)
SortDesc(s, k) ==
    IF s = <<>> THEN <<>>
    ELSE InsertDesc(SortDesc(SubSeq(s, 1, Len(s) - 1), k), s[Len(s)], k)

\* the first value of a sequence that is an int, or None
RECURSIVE FirstNumeric(_)
FirstNumeric(vals) ==
    IF vals = <<>> THEN None
    ELSE IF Head(vals).t = "int" THEN Head(vals)
    ELSE FirstNumeric(Tail(vals))

\* int(x) raises ValueError on a string that is no number
IntRaises(x) == x.t = "str"

\* a or b
PyOr(a, b) == IF Truthy(a) THEN a ELSE b

\* app/main.py lines 61-68 and 92-93: a missing environment variable is
\* answered with 500 before anything else happens
Env ==
    /\ prog \in {"reddit_top", "telegram_top"} /\ pc = "h_env"
    /\ \/ /\ pc' = "h_done"
          /\ response' = Http500
       \/ /\ pc' = IF prog = "reddit_top" THEN "h_token" ELSE "t_client"
          /\ UNCHANGED response
    /\ UNCHANGED <<prog, req, net_calls, items, ig_hist, ranked, tg_vars,
                   fetch_vars, score_vars>>

\* app/main.py line 70: get_oauth_token posts to the token endpoint
GetToken ==
    /\ prog = "reddit_top" /\ pc = "h_token"
    /\ net_calls' = net_calls + 1
    /\ \/ /\ pc' = "h_done"
          /\ response' = Http500
       \/ /\ pc' = "h_fetch"
          /\ UNCHANGED response
    /\ UNCHANGED <<prog, req, items, ig_hist, ranked, tg_vars, fetch_vars,
                   score_vars>>

\* app/main.py line 74: fetch_subreddit_new returns the posts of the window
\* (none when the window is empty) or raises
FetchPosts ==
    /\ prog = "reddit_top" /\ pc = "h_fetch"
    /\ net_calls' = net_calls + 1
    /\ \/ /\ pc' = "h_done"
          /\ response' = Http500
          /\ UNCHANGED items
       \/ /\ \E posts \in SeqsUpTo(RedditPosts, IF req.days > 0 THEN MaxItems ELSE 0) :
                items' = [i \in 1..Len(posts) |->
                            [id |-> i, score |-> posts[i].score,
                             num_comments |-> posts[i].num_comments,
                             total_awards_received |-> posts[i].total_awards_received,
                             engagement_score |-> 0]]
          /\ pc' = "h_rank"
          /\ UNCHANGED response
    /\ UNCHANGED <<prog, req, ig_hist, ranked, tg_vars, fetch_vars, score_vars>>

\* app/main.py lines 75-78: score every post, sort, answer
RankPosts ==
    /\ prog = "reddit_top" /\ pc = "h_rank"
    /\ items' = SortDesc([i \in 1..Len(items) |->
                            [items[i] EXCEPT !.engagement_score =
                                compute_engagement(items[i], req.alpha, req.beta,
                                                   req.gamma, reddit_award_scale)]],
                         "engagement_score")
    /\ ranked' = TRUE
    /\ response' = [status |-> 200, top |-> PySlice(items', req.top),
                    count |-> Len(items')]
    /\ pc' = "h_done"
    /\ UNCHANGED <<prog, req, net_calls, ig_hist, tg_vars, fetch_vars, score_vars>>

\* app/main.py lines 140-143: login_with_prompt
Login ==
    /\ prog = "instagram_top" /\ pc = "h_login"
    /\ net_calls' = net_calls + 1
    /\ \/ /\ pc' = "h_done"
          /\ response' = Http500
       \/ /\ pc' = "h_fetch"
          /\ UNCHANGED response
    /\ UNCHANGED <<prog, req, items, ig_hist, ranked, tg_vars, fetch_vars,
                   score_vars>>

\* app/main.py line 149: fetch_medias_since returns the medias of the window
\* or raises (user_info_by_username_v1)
FetchMedias ==
    /\ prog = "instagram_top" /\ pc = "h_fetch"
    /\ net_calls' = net_calls + 1
    /\ \/ /\ pc' = "h_done"
          /\ response' = Http500
          /\ UNCHANGED medias_n
       \/ /\ medias_n' \in 0..(IF req.days > 0 THEN MaxMedias ELSE 0)
          /\ pc' = "h_item"
          /\ UNCHANGED response
    /\ UNCHANGED <<prog, req, items, skipped, primary_views, looked_up, ranked,
                   tg_vars, fetch_vars, score_vars>>

\* app/main.py lines 152-196 (scrapeInstagramPage.py lines 323-377): one
\* iteration of the loop over the medias, for media m and the answer ins
\* that cl.insights_media gives if it is asked
ForM(m, ins) ==
    LET media_pk == PyOr(m.pk, m.id)
        likes_raw == Or0(m.like_count)
        comments_raw == Or0(m.comment_count)
        prim == FirstNumeric(m.view_attrs)
        views0 == IF prim.t = "int" THEN prim.v ELSE 0
        lookup == Truthy(media_pk)
        dict == IF ins.raises THEN [views |-> <<>>, saves |-> <<>>] ELSE ins
        ins_views == FirstNumeric(dict.views)
        ins_saves == FirstNumeric(dict.saves)
        views == IF lookup /\ ins_views.t = "int" THEN ins_views.v ELSE views0
        saves == IF lookup /\ ins_saves.t = "int" THEN ins_saves.v ELSE 0
    IN
    IF IntRaises(likes_raw) \/ IntRaises(comments_raw)
    THEN [raises |-> TRUE, skip |-> FALSE, lookup |-> FALSE, prim |-> prim,
          item |-> <<>>]
    ELSE IF req.exclude_videos /\ m.is_video
    THEN [raises |-> FALSE, skip |-> TRUE, lookup |-> FALSE, prim |-> prim,
          item |-> <<>>]
    ELSE IF lookup /\ IntRaises(media_pk)
    THEN [raises |-> TRUE, skip |-> FALSE, lookup |-> FALSE, prim |-> prim,
          item |-> <<>>]
    ELSE [raises |-> FALSE, skip |-> FALSE, lookup |-> lookup, prim |-> prim,
          item |-> [id |-> Len(items) + skipped + 1,
                    pk |-> media_pk,
                    likes |-> likes_raw.v, comments |-> comments_raw.v,
                    views |-> views, saves |-> saves,
                    score |-> compute_engagement_from_metrics(
                                 Num(likes_raw.v), Num(comments_raw.v),
                                 Num(views), Num(saves),
                                 req.alpha, req.beta, req.gamma, req.delta)]]

ScoreMedia ==
    /\ prog = "instagram_top" /\ pc = "h_item"
    /\ Len(items) + skipped < medias_n
    /\ \E m \in Medias, ins \in Insights :
          LET r == ForM(m, ins) IN
          /\ net_calls' = IF r.lookup THEN net_calls + 1 ELSE net_calls
          /\ IF r.raises
             THEN /\ pc' = "h_done"
                  /\ response' = Http500
                  /\ UNCHANGED <<items, skipped, primary_views, looked_up>>
             ELSE IF r.skip
             THEN /\ skipped' = skipped + 1
                  /\ UNCHANGED <<pc, response, items, primary_views, looked_up>>
             ELSE /\ items' = Append(items, r.item)
                  /\ primary_views' = r.prim
                  /\ looked_up' = r.lookup
                  /\ UNCHANGED <<pc, response, skipped>>
    /\ UNCHANGED <<prog, req, medias_n, ranked, tg_vars, fetch_vars, score_vars>>

\* app/main.py lines 198-199: sort, answer
RankMedias ==
    /\ prog = "instagram_top" /\ pc = "h_item"
    /\ Len(items) + skipped = medias_n
    /\ items' = SortDesc(items, "score")
    /\ ranked' = TRUE
    /\ response' = [status |-> 200, top |-> PySlice(items', req.top),
                    count |-> Len(items')]
    /\ pc' = "h_done"
    /\ UNCHANGED <<prog, req, net_calls, ig_hist, tg_vars, fetch_vars, score_vars>>

\* what telegram_top answers when scrape_channel returned posts
\* (app/main.py lines 117-122); Truthy-ness of a list is its being non-empty
TelegramResponse(posts) ==
    [status |-> 200,
     top |-> IF posts # <<>> THEN PySlice(posts, req.top) ELSE <<>>,
     count |-> IF posts # <<>> THEN Len(posts) ELSE 0]

\* scrape_channel falls off its end (line 352) or executes a bare return
\* (lines 300, 306): the caller gets None, which reads like an empty list
ReturnNone(posts) == <<>>

\* the programs that call scrape_channel: the handler telegram_top and
\* scrapeTelegramChannel.main
TelegramCallers == {"telegram_top", "telegram_main"}

\* mutant: the window test never stops the iteration
BeforeSinceNever(msg_date_utc) == FALSE

\* line 267: msg_date_utc < since
BeforeSince(msg_date_utc) == msg_date_utc < cutoff_dt

\* scrapeTelegramChannel.py line 247: get_client connects, or raises after
\* disconnecting (lines 163-165, 177-179)
GetClient ==
    /\ prog \in TelegramCallers /\ pc = "t_client"
    /\ net_calls' = net_calls + 1
    /\ \/ /\ pc' = "h_done"
          /\ response' = Http500
          /\ disconnects' = disconnects + 1
          /\ UNCHANGED connected
       \/ /\ pc' = "t_iter"
          /\ connected' = TRUE
          /\ UNCHANGED <<response, disconnects>>
    /\ UNCHANGED <<prog, req, items, ig_hist, ranked, tg_hist, fetch_vars,
                   score_vars>>

\* lines 254-292: the iterator yields one more message
IterMessage ==
    /\ prog \in TelegramCallers /\ pc = "t_iter"
    /\ Len(msgs_read) < MaxRead
    /\ \E msg \in Messages :
          /\ req.days > 0 \/ msg.date < cutoff_dt
          /\ msgs_read' = Append(msgs_read, msg.date)
          /\ IF msg.date = 0
             THEN UNCHANGED <<pc, items, jsonl_lines>>
             ELSE IF BeforeSince(msg.date)
             THEN /\ pc' = "t_rank"
                  /\ UNCHANGED <<items, jsonl_lines>>
             ELSE /\ Len(items) < MaxItems
                  /\ items' = Append(items,
                                [id |-> Len(items) + 1, views |-> msg.views,
                                 forwards |-> None, replies |-> Num(0),
                                 reactions_total |-> Num(0),
                                 engagement_score |-> 0])
                  /\ jsonl_lines' = IF req.out_jsonl # "" THEN jsonl_lines + 1
                                    ELSE jsonl_lines
                  /\ UNCHANGED pc
    /\ UNCHANGED <<prog, req, net_calls, response, ig_hist, ranked, tg_client,
                   json_written, tg_error, fetch_vars, score_vars>>

\* line 254: the iterator is exhausted
IterEnds ==
    /\ prog \in TelegramCallers /\ pc = "t_iter"
    /\ pc' = "t_rank"
    /\ UNCHANGED <<prog, req, net_calls, items, response, ig_hist, ranked,
                   tg_vars, fetch_vars, score_vars>>

\* mutant: every exception handled like KeyboardInterrupt, by going on to the
\* ranking
IterRaisesGoesOn(kind) ==
    /\ prog \in TelegramCallers /\ pc = "t_iter"
    /\ kind \in {"BotMethodInvalidError", "KeyboardInterrupt", "Exception"}
    /\ tg_error' = kind
    /\ pc' = "t_rank"
    /\ UNCHANGED <<response, tg_client>>
    /\ UNCHANGED <<prog, req, net_calls, items, ig_hist, ranked, msgs_read,
                   jsonl_lines, json_written, fetch_vars, score_vars>>

\* mutant: the handlers of lines 294-306 return without disconnecting
IterRaisesKeepsClient(kind) ==
    /\ prog \in TelegramCallers /\ pc = "t_iter"
    /\ kind \in {"BotMethodInvalidError", "KeyboardInterrupt", "Exception"}
    /\ tg_error' = kind
    /\ IF kind = "KeyboardInterrupt"
       THEN /\ pc' = "t_rank"
            /\ UNCHANGED <<response, tg_client>>
       ELSE /\ UNCHANGED tg_client
            /\ response' = IF prog = "telegram_top" THEN TelegramResponse(<<>>)
                           ELSE response
            /\ pc' = "h_done"
    /\ UNCHANGED <<prog, req, net_calls, items, ig_hist, ranked, msgs_read,
                   jsonl_lines, json_written, fetch_vars, score_vars>>

\* lines 294-306: the iteration raises (a failed write to out_jsonl, line 291,
\* is such an Exception); KeyboardInterrupt goes on to the ranking, every
\* other exception disconnects and returns None
IterRaises(kind) ==
    /\ prog \in TelegramCallers /\ pc = "t_iter"
    /\ kind \in {"BotMethodInvalidError", "KeyboardInterrupt", "Exception"}
    /\ tg_error' = kind
    /\ IF kind = "KeyboardInterrupt"
       THEN /\ pc' = "t_rank"
            /\ UNCHANGED <<response, tg_client>>
       ELSE /\ connected' = FALSE
            /\ disconnects' = disconnects + 1
            /\ response' = IF prog = "telegram_top"
                           THEN TelegramResponse(ReturnNone(items))
                           ELSE response
            /\ pc' = "h_done"
    /\ UNCHANGED <<prog, req, net_calls, items, ig_hist, ranked, msgs_read,
                   jsonl_lines, json_written, fetch_vars, score_vars>>

\* lines 309-352 and app/main.py 117-122: score, sort, print the top, write
\* out_json when it is set, disconnect, return; then the handler answers.
\* When the write of lines 348-349 raises, the exception leaves
\* scrape_channel before line 352
RankMessages ==
    /\ prog \in TelegramCallers /\ pc = "t_rank"
    /\ items' = SortDesc([i \in 1..Len(items) |->
                            [items[i] EXCEPT !.engagement_score =
                                compute_engagement_telegram(
                                    items[i], default_alpha, default_beta,
                                    tg_delta, tg_gamma, telegram_award_scale)]],
                         "engagement_score")
    /\ ranked' = TRUE
    /\ pc' = "h_done"
    /\ \/ /\ json_written' = (req.out_json # "")
          /\ connected' = FALSE
          /\ disconnects' = disconnects + 1
          /\ response' = IF prog = "telegram_top"
                         THEN TelegramResponse(ReturnNone(items'))
                         ELSE response
          /\ UNCHANGED tg_error
       \/ /\ req.out_json # ""
          /\ tg_error' = "OSError"
          /\ response' = IF prog = "telegram_top" THEN Http500 ELSE response
          /\ UNCHANGED <<json_written, tg_client>>
    /\ UNCHANGED <<prog, req, net_calls, ig_hist, msgs_read, jsonl_lines,
                   fetch_vars, score_vars>>

\* no handler runs
ApiIdle ==
    /\ req = <<>> /\ net_calls = 0 /\ items = <<>> /\ response = NoResponse
    /\ medias_n = 0 - 1 /\ skipped = 0 /\ primary_views = None
    /\ looked_up = FALSE /\ ranked = FALSE
    /\ connected = FALSE /\ disconnects = 0
    /\ msgs_read = <<>> /\ jsonl_lines = 0 /\ json_written = FALSE
    /\ tg_error = ""

Init ==
    /\ prog \in {"instagram", "reddit"}
    /\ pc = IF prog = "instagram" THEN "user_info" ELSE "r_while"
    /\ raised = FALSE
    /\ returned = <<>>
    /\ stop_reason = "none"
    /\ delivered = <<>>
    /\ max_fetch \in IF prog = "instagram" THEN (0 - 1)..MaxFetch ELSE {0}
    /\ fetched = <<>>
    /\ end_cursor = ""
    /\ prev_end_cursor = "None"
    /\ page_count = 0
    /\ stop_all = FALSE
    /\ attempt = 0
    /\ sleeps = <<>>
    /\ slept = 0
    /\ same_cursor_at = 0
    /\ adapter = <<>> /\ cursor_sent = "" /\ cursor_returned = ""
    /\ outstanding = 0
    /\ r_max_pages \in IF prog = "reddit" THEN 0..MaxPages ELSE {0}
    /\ collected = <<>>
    /\ pages = 0
    /\ after = "None"
    /\ requests = 0
    /\ same_after_at = 0
    /\ ScoreIdle
    /\ ApiIdle

\* the cursors a page request can carry
Cursors == {OrStr(c) : c \in RawCursors}

\* the page an idempotent adapter can hold behind each cursor: the items of
\* different cursors are different, and the later page holds the older items
PagesBehind(cursor) ==
    IF cursor = "" THEN {<<cutoff_dt + 5>>, <<cutoff_dt + 5, cutoff_dt + 4>>}
    ELSE IF cursor = "A" THEN {<<cutoff_dt + 3>>, <<cutoff_dt + 3, cutoff_dt + 2>>}
    ELSE {<<>>, <<cutoff_dt + 1>>, <<cutoff_dt + 1, cutoff_dt - 1>>}

\* the idempotent adapters: one fixed answer per cursor, pairwise distinct
\* items, any cursor behind any page (chains, repeated cursors and cycles)
IdempotentAdapters ==
    {a \in [Cursors -> [page : UNION {PagesBehind(c) : c \in Cursors},
                         cursor : RawCursors]] :
        \A c \in Cursors : a[c].page \in PagesBehind(c)}

\* fetch_medias_since over an idempotent adapter
InitIdem ==
    /\ prog = "instagram"
    /\ pc = "user_info"
    /\ raised = FALSE /\ returned = <<>> /\ stop_reason = "none"
    /\ delivered = <<>>
    /\ max_fetch \in 1..MaxFetch
    /\ fetched = <<>> /\ end_cursor = "" /\ prev_end_cursor = "None"
    /\ page_count = 0 /\ stop_all = FALSE
    /\ attempt = 0 /\ sleeps = <<>> /\ slept = 0 /\ same_cursor_at = 0
    /\ adapter \in IdempotentAdapters
    /\ cursor_sent = "" /\ cursor_returned = "" /\ outstanding = 0
    /\ r_max_pages = 0 /\ collected = <<>> /\ pages = 0 /\ after = "None"
    /\ requests = 0 /\ same_after_at = 0
    /\ ScoreIdle
    /\ ApiIdle

NextIdem ==
    \/ UserInfo
    \/ While
    \/ PageFetched
    \/ AttemptFails

SpecIdem == InitIdem /\ [][NextIdem]_vars

\* ------------------------------------------------------------------
\* scrapeInstagramPage.main over a channel of three medias: the fetch
\* followed by the ranking pass
\* ------------------------------------------------------------------
\* the medias of the channel, newest first, as their taken_at: now, an hour
\* ago and a hundred hours ago, the cutoff being three days (72 hours) ago
ExampleItems == <<cutoff_dt + 2, cutoff_dt + 1, cutoff_dt - 1>>

\* like_count of the media taken at t
ExampleLikes(t) ==
    IF t = cutoff_dt + 2 THEN 100 ELSE IF t = cutoff_dt + 1 THEN 10 ELSE 1

\* the media object taken at t: likes only, no comments, no view field
ExampleMedia(t) ==
    [pk |-> Num(1), id |-> None, like_count |-> Num(ExampleLikes(t)),
     comment_count |-> Num(0), view_attrs |-> <<None, None, None, None>>,
     is_video |-> FALSE]

\* the insights of such a media: none, or a dict without views and saves
ExampleInsights ==
    {ins \in Insights : FirstNumeric(ins.views) = None
                        /\ FirstNumeric(ins.saves) = None}

\* the ways the adapter can cut the channel into pages, as page lengths
ExampleSplits == {<<3>>, <<1, 2>>, <<2, 1>>, <<1, 1, 1>>}

\* the cursors along which the pages follow each other
CursorChain == <<"", "A", "B">>

\* the sum of the first n elements of s
RECURSIVE SumTo(_, _)
SumTo(s, n) == IF n = 0 THEN 0 ELSE s[n] + SumTo(s, n - 1)

\* the adapter that serves the channel cut as `split` says: page k behind
\* cursor k of the chain, `last` as the cursor of the last page
ExampleAdapter(split, last) ==
    [c \in Cursors |->
        LET k == CHOOSE j \in 1..Len(CursorChain) : CursorChain[j] = c IN
        IF k > Len(split) THEN [page |-> <<>>, cursor |-> "None"]
        ELSE [page |-> SubSeq(ExampleItems, SumTo(split, k - 1) + 1, SumTo(split, k)),
              cursor |-> IF k < Len(split) THEN CursorChain[k + 1] ELSE last]]

\* lines 287-313: the arguments of the run (likes weight 1.5, any other
\* weights, a top that shows both posts) and the state before the fetch
InitExample ==
    /\ prog = "instagram"
    /\ pc = "user_info"
    /\ raised = FALSE /\ returned = <<>> /\ stop_reason = "none"
    /\ delivered = <<>>
    /\ max_fetch \in 2..MaxFetch
    /\ fetched = <<>> /\ end_cursor = "" /\ prev_end_cursor = "None"
    /\ page_count = 0 /\ stop_all = FALSE
    /\ attempt = 0 /\ sleeps = <<>> /\ slept = 0 /\ same_cursor_at = 0
    /\ adapter \in {ExampleAdapter(sp, last) :
                        sp \in ExampleSplits, last \in {"None", ""}}
    /\ cursor_sent = "" /\ cursor_returned = "" /\ outstanding = 0
    /\ r_max_pages = 0 /\ collected = <<>> /\ pages = 0 /\ after = "None"
    /\ requests = 0 /\ same_after_at = 0
    /\ ScoreIdle
    /\ req \in [top : {MaxTop, MaxItems}, days : {default_days},
                 exclude_videos : BOOLEAN, alpha : {default_alpha},
                 beta : Weights, gamma : Weights, delta : Weights,
                 out_json : {""}, out_jsonl : {""}]
    /\ net_calls = 0 /\ items = <<>> /\ response = NoResponse
    /\ medias_n = 0 - 1 /\ skipped = 0 /\ primary_views = None
    /\ looked_up = FALSE /\ ranked = FALSE
    /\ connected = FALSE /\ disconnects = 0
    /\ msgs_read = <<>> /\ jsonl_lines = 0 /\ json_written = FALSE
    /\ tg_error = ""

\* lines 323-377: one iteration of the loop over the medias the fetch returned
MainForM ==
    /\ prog = "instagram" /\ pc = "done" /\ ~raised
    /\ Len(items) + skipped < Len(returned)
    /\ \E ins \in ExampleInsights :
          LET r == ForM(ExampleMedia(returned[Len(items) + skipped + 1]), ins) IN
          /\ net_calls' = IF r.lookup THEN net_calls + 1 ELSE net_calls
          /\ IF r.raises
             THEN /\ pc' = "m_raised"
                  /\ UNCHANGED <<items, skipped, primary_views, looked_up>>
             ELSE IF r.skip
             THEN /\ skipped' = skipped + 1
                  /\ UNCHANGED <<pc, items, primary_views, looked_up>>
             ELSE /\ items' = Append(items, r.item)
                  /\ primary_views' = r.prim
                  /\ looked_up' = r.lookup
                  /\ UNCHANGED <<pc, skipped>>
    /\ UNCHANGED <<prog, req, response, medias_n, ranked, tg_vars, fetch_vars,
                   score_vars>>

\* lines 318-320 and 379-387: nothing to rank, or the sort and the table of
\* the top_n best
MainSort ==
    /\ prog = "instagram" /\ pc = "done" /\ ~raised
    /\ Len(items) + skipped = Len(returned)
    /\ pc' = "m_done"
    /\ IF returned = <<>>
       THEN UNCHANGED <<items, ranked, response>>
       ELSE /\ items' = SortDesc(items, "score")
            /\ ranked' = TRUE
            /\ response' = SubSeq(items', 1, IF Len(items') < req.top
                                             THEN Len(items') ELSE req.top)
    /\ UNCHANGED <<prog, req, net_calls, ig_hist, tg_vars, fetch_vars, score_vars>>

NextExample ==
    \/ UserInfo
    \/ While
    \/ PageFetched
    \/ MainForM
    \/ MainSort

SpecExample == InitExample /\ [][NextExample]_vars

\* the steps of a fetch whose page source never fails
NoFailNext ==
    \/ UserInfo
    \/ While
    \/ PageFetched
    \/ RedditWhile
    \/ RedditGet

Next ==
    \/ NoFailNext
    \/ AttemptFails

Spec == Init /\ [][Next]_vars

\* the scoring functions, called on every combination of counters and weights
InitScore ==
    /\ prog \in Scorers
    /\ pc = "s_call"
    /\ metrics \in [CounterNames(prog) -> RawCounters]
    /\ weights \in [{"alpha", "beta", "gamma", "delta"} -> Weights]
    /\ prog = "compute_engagement" => weights.delta = 0
    /\ engagement = 0
    /\ increased = "" /\ engagement_before = 0
    /\ FetchIdle
    /\ ApiIdle

NextScore ==
    \/ Call
    \/ CallIncreased

SpecScore == InitScore /\ [][NextScore]_vars

\* the request bodies: top and days are free, the weights are the defaults
\* or have a negative alpha; telegram_top passes fixed weights
Requests(h) ==
    [top : (0 - 1)..MaxTop,
     days : {0, default_days},
     exclude_videos : IF h = "instagram_top" THEN BOOLEAN ELSE {FALSE},
     out_json : IF h \in TelegramCallers THEN {"", "out.json"} ELSE {""},
     out_jsonl : IF h = "telegram_main" THEN {"", "out.jsonl"} ELSE {""},
     alpha : IF h \in TelegramCallers THEN {default_alpha}
             ELSE {0 - default_alpha, default_alpha},
     beta : {default_beta},
     gamma : {IF h = "instagram_top" THEN ig_gamma
              ELSE IF h = "reddit_top" THEN reddit_gamma ELSE tg_gamma},
     delta : {IF h = "instagram_top" THEN ig_delta
              ELSE IF h = "reddit_top" THEN 0 ELSE tg_delta}]

\* a request arrives at one of the three handlers, or
\* scrapeTelegramChannel.main calls scrape_channel (lines 387-406)
InitApi ==
    /\ prog \in Handlers \cup TelegramCallers
    /\ pc = IF prog = "instagram_top" THEN "h_login"
            ELSE IF prog = "telegram_main" THEN "t_client" ELSE "h_env"
    /\ req \in Requests(prog)
    /\ net_calls = 0 /\ items = <<>> /\ response = NoResponse
    /\ medias_n = 0 - 1 /\ skipped = 0 /\ primary_views = None
    /\ looked_up = FALSE /\ ranked = FALSE
    /\ connected = FALSE /\ disconnects = 0
    /\ msgs_read = <<>> /\ jsonl_lines = 0 /\ json_written = FALSE
    /\ tg_error = ""
    /\ FetchIdle
    /\ ScoreIdle

NextApi ==
    \/ Env
    \/ GetToken
    \/ FetchPosts
    \/ RankPosts
    \/ Login
    \/ FetchMedias
    \/ ScoreMedia
    \/ RankMedias
    \/ GetClient
    \/ IterMessage
    \/ IterEnds
    \/ \E kind \in {"BotMethodInvalidError", "KeyboardInterrupt", "Exception"} :
          IterRaises(kind)
    \/ RankMessages

SpecApi == InitApi /\ [][NextApi]_vars

(***************************************************************************)
(* Properties                                                              *)
(***************************************************************************)
\* newest first: timestamps never increase along the sequence
NewestFirst(s) == \A i \in 1..Len(s) : \A j \in i..Len(s) : s[i] >= s[j]

\* every item carries a timestamp
AllStamped(s) == \A i \in 1..Len(s) : s[i] # 0

\* the items of s that lie in the window
WindowItems(s) == SelectSeq(s, LAMBDA t : t >= cutoff_dt)

\* the fetch ended without a failed page request, a cap or a stall guard
EndedByDataOrWindow == stop_reason \in {"exhausted", "empty_cursor", "window"}

\* C1: Window correctness (Instagram).  When the adapter's items are sorted
\* newest-first and all carry a timestamp, and the fetch ended neither by a
\* cap, nor by the repeated-cursor guard, nor by a failed page request, the
\* returned list is exactly the items with timestamp >= cutoff, which form a
\* prefix of the delivered sequence: nothing at or after the first
\* out-of-window item is returned.
WindowCorrectness ==
    (/\ prog = "instagram" /\ pc = "done"
     /\ EndedByDataOrWindow
     /\ NewestFirst(delivered) /\ AllStamped(delivered))
    => /\ returned = WindowItems(delivered)
       /\ returned = SubSeq(delivered, 1, Len(returned))
       /\ \A i \in 1..Len(returned) : returned[i] >= cutoff_dt
       /\ stop_reason = "window" <=> Len(returned) < Len(delivered)

\* C1 witness: a single page of three items whose middle item is the first
\* out-of-window one
WindowCorrectnessWitness ==
    /\ prog = "instagram" /\ pc = "done" /\ stop_reason = "window"
    /\ page_count = 1
    /\ delivered = <<cutoff_dt, cutoff_dt - 1, cutoff_dt - 1>>
    /\ returned = <<cutoff_dt>>

\* C2: Stall termination (Instagram).  After the adapter has returned the same
\* non-empty cursor twice in a row, at most one further page request is made.
StallTermination ==
    (prog = "instagram" /\ same_cursor_at > 0) => page_count <= same_cursor_at + 1

\* C3: Item cap.  The list being built, and so the list returned, never holds
\* more than max_fetch items, and holds none when max_fetch <= 0.
ItemCap ==
    prog = "instagram" =>
        /\ Len(fetched) <= (IF max_fetch > 0 THEN max_fetch ELSE 0)
        /\ Len(returned) <= (IF max_fetch > 0 THEN max_fetch ELSE 0)

\* C3 witness: the cap cut a page short
ItemCapWitness ==
    /\ prog = "instagram" /\ pc = "done" /\ stop_reason = "cap_items"
    /\ max_fetch = 2 /\ Len(returned) = max_fetch
    /\ Len(delivered) > max_fetch

\* C4: Page cap.  fetch_medias_since never makes more than max_pages page
\* requests (page_count counts them, one per request whatever the number of
\* attempts), and fetch_subreddit_new never makes more than its max_pages.
PageCap ==
    /\ prog = "instagram" => page_count <= max_pages
    /\ prog = "reddit" => requests <= r_max_pages /\ pages <= requests

\* C4 witness: the page cap ended the Instagram fetch while data remained
PageCapWitness ==
    /\ prog = "instagram" /\ pc = "done" /\ stop_reason = "cap_pages"
    /\ page_count = max_pages /\ Len(returned) < max_fetch

\* C5: Retry exhaustion.  When a page request fails on all its attempts, the
\* fetch is over and returns exactly the items of the earlier pages, all of
\* them and in the order delivered.
RetryExhaustion ==
    stop_reason = "failed" =>
        /\ pc = "done" /\ attempt = retries
        /\ returned = delivered /\ returned = fetched

\* C5 witness: the second page request failed after a first page of two items
RetryExhaustionWitness ==
    /\ stop_reason = "failed" /\ page_count = 2 /\ Len(returned) = 2

\* C6: Failure signal.  A fetch ended by a failed page request reports it to
\* its caller: the call does not end like a successful one.
FailureSignal == stop_reason = "failed" => raised

NonTransientNotRetried ==
    [][/\ AttemptRaises("auth") => (pc' = "done" /\ raised')
       /\ (prog = "reddit" /\ stop_reason' = "http_error") => (pc' = "done" /\ raised')]_vars

\* the variables a caller or the page source can observe: all but the
\* bookkeeping of the retry loop
obs == <<prog, pc, raised, returned, stop_reason, delivered, ig_locals,
         same_cursor_at, chain, reddit_vars>>

\* C9: Transient errors are fully absorbed.  A failed attempt that is retried
\* changes nothing but the bookkeeping of the retry loop: the list fetched,
\* the cursors, the page count and everything the caller and the page source
\* see stay as they are.  Every other step is a step of NoFailNext, so a run
\* in which no page request exhausts its attempts goes through the same
\* states as the run over an adapter that never fails, and returns the same
\* list.
TransientAbsorbed ==
    [][(AttemptFails /\ stop_reason' # "failed") => UNCHANGED obs]_vars

\* C9 witness: the second page request has failed three times and can still
\* succeed
TransientAbsorbedWitness ==
    /\ pc = "attempt" /\ attempt = retries /\ page_count = 2
    /\ Len(fetched) = 2 /\ stop_reason = "none"

\* C10: Clean stops are not errors.  A fetch ended by an empty page, an empty
\* or repeated cursor, the window boundary or a cap returns what it collected
\* and raises nothing.
CleanStops ==
    (pc = "done" /\ stop_reason \in {"exhausted", "empty_cursor",
                                     "repeated_cursor", "window",
                                     "cap_items", "cap_pages"})
    => /\ ~raised
       /\ returned = (IF prog = "instagram" THEN fetched ELSE collected)

\* C10 witness: the repeated-cursor guard ended a fetch that had collected items
CleanStopsWitness ==
    /\ prog = "instagram" /\ pc = "done" /\ stop_reason = "repeated_cursor"
    /\ ~raised /\ Len(returned) = 3


\* C11: Fatal errors preserve partial data (Reddit).  When a listing request
\* is answered with a status other than 200 after at least one page was
\* processed, the posts collected from the earlier pages reach the caller
\* together with the failure.
PartialDataPreserved ==
    (prog = "reddit" /\ stop_reason = "http_error" /\ pages >= 1)
    => (raised /\ returned = collected)

\* C12: Window correctness (Reddit).  For a listing sorted newest-first whose
\* fetch ended before max_pages was reached and without a failed request,
\* the returned list is exactly the prefix of the delivered posts with
\* created_utc >= cutoff_ts: nothing at or after the first out-of-window
\* post is returned, wherever that post sits in its page.
RedditWindowCorrectness ==
    (/\ prog = "reddit" /\ pc = "done"
     /\ EndedByDataOrWindow
     /\ NewestFirst(delivered))
    => /\ returned = WindowItems(delivered)
       /\ returned = SubSeq(delivered, 1, Len(returned))
       /\ stop_reason = "window" <=> Len(returned) < Len(delivered)

\* C12 witness: the second page holds the first out-of-window post in its
\* middle
RedditWindowCorrectnessWitness ==
    /\ prog = "reddit" /\ pc = "done" /\ stop_reason = "window"
    /\ pages = 2
    /\ delivered = <<cutoff_ts, cutoff_ts, cutoff_ts - 1, cutoff_ts - 1>>
    /\ returned = <<cutoff_ts, cutoff_ts>>

\* C13: Stall termination (Reddit).  Once the listing has returned the same
\* non-empty `after` on two consecutive pages, no further page is requested.
RedditStallTermination ==
    (prog = "reddit" /\ same_after_at > 0) => requests <= same_after_at

\* the weight that belongs to a counter (spec 4.3 and the help texts of the
\* command lines)
WeightName(f, c) ==
    IF c \in {"score", "likes"} THEN "alpha"
    ELSE IF c \in {"num_comments", "forwards", "comments"} THEN "beta"
    ELSE IF c \in {"total_awards_received", "reactions_total"} THEN "gamma"
    ELSE IF c = "replies" THEN "delta"
    ELSE IF c = "saves" THEN "delta"
    ELSE IF f = "compute_engagement_telegram" THEN "alpha" ELSE "gamma"

\* C20: Score monotonicity.  For each of the three scoring functions, a
\* second call with one counter increased by one from a value >= 0, the
\* weight of that counter being > 0 and every other counter and weight being
\* the same, returns a strictly larger score.
ScoreMonotonicity ==
    (/\ prog \in Scorers /\ pc = "s_again"
     /\ metrics[increased].v >= 1
     /\ weights[WeightName(prog, increased)] > 0)
    => engagement > engagement_before

\* C20 witness: the reactions of a Telegram message went from 1 to 2 under a
\* weight of 1.5 and the score grew
ScoreMonotonicityWitness ==
    /\ prog = "compute_engagement_telegram" /\ pc = "s_again"
    /\ increased = "reactions_total" /\ metrics.reactions_total = Num(2)
    /\ weights.gamma = default_alpha
    /\ engagement > engagement_before

\* the key a ranking pass sorts by
Key(e) == IF prog = "instagram_top" THEN e.score ELSE e.engagement_score

\* C14: Ranking order and stability.  After the ranking pass of reddit_top,
\* of scrape_channel and of instagram_top the items are in non-increasing
\* order of their score, and items of equal score are in the order in which
\* they were fetched (id is the position in fetch order).
RankingOrder ==
    ranked =>
        \A i \in 1..Len(items) : \A j \in 1..Len(items) :
            i < j => /\ Key(items[i]) >= Key(items[j])
                     /\ items[i].id # items[j].id
                     /\ Key(items[i]) = Key(items[j]) => items[i].id < items[j].id

\* C14 witness: three Reddit posts, the first fetched ranked last, the two
\* others tied and in fetch order
RankingOrderWitness ==
    /\ prog = "reddit_top" /\ ranked /\ Len(items) = 3
    /\ Key(items[1]) = Key(items[2]) /\ Key(items[2]) > Key(items[3])
    /\ items[1].id = 2 /\ items[2].id = 3 /\ items[3].id = 1

\* a request that a validation of the configuration would let through
ValidWeightsAndDays == req.alpha > 0 /\ req.days > 0

\* C15: Top-N truncation.  The list reddit_top and instagram_top answer has
\* min(top, number of scored items) entries when top > 0 and none when
\* top <= 0, zero and negative alike.
TopNTruncation ==
    (/\ prog \in {"reddit_top", "instagram_top"} /\ response.status = 200
     /\ ValidWeightsAndDays)
    => Len(response.top) =
          (IF req.top <= 0 THEN 0
           ELSE IF req.top < Len(items) THEN req.top ELSE Len(items))

\* C16: Config validation precedes the network.  With a negative weight, a
\* non-positive top or a non-positive lookback in the request, reddit_top and
\* instagram_top make no network call.
ConfigValidated ==
    (/\ prog \in {"reddit_top", "instagram_top"}
     /\ (req.alpha < 0 \/ req.top <= 0 \/ req.days <= 0))
    => net_calls = 0

\* C17: Telegram endpoint result.  When scrape_channel has scraped k >= 1
\* messages of the window and ranked them, telegram_top answers count = k and
\* the first min(top, k) ranked posts.
TelegramResult ==
    (/\ prog = "telegram_top" /\ pc = "h_done" /\ ranked
     /\ Len(items) >= 1 /\ req.top >= 1 /\ ValidWeightsAndDays)
    => /\ response.count = Len(items)
       /\ response.top =
             SubSeq(items, 1, IF req.top < Len(items) THEN req.top ELSE Len(items))

\* C18: The insights lookup is a fallback only.  For a media whose own
\* fields gave a view count, insights are not requested and the views kept
\* for the item are the ones its fields gave.
InsightsFallbackOnly ==
    (/\ prog = "instagram_top" /\ pc = "h_item" /\ items # <<>>
     /\ primary_views.t = "int"
     /\ req.top >= 1 /\ ValidWeightsAndDays)
    => /\ ~looked_up
       /\ items[Len(items)].views = primary_views.v

\* C19: Item-level failures do not abort the batch.  Once fetch_medias_since
\* has handed over its medias, instagram_top answers with every media that
\* was not skipped as a video, whatever the counters and ids of the medias
\* and whatever cl.insights_media does.
ItemFailuresContained ==
    (/\ prog = "instagram_top" /\ pc = "h_done" /\ medias_n >= 0
     /\ req.top >= 1 /\ ValidWeightsAndDays)
    => (response.status = 200 /\ response.count = medias_n - skipped)

\* every counter of the item is 0, None or absent (an absent key reads as
\* None)
AllCountersZero == \A c \in DOMAIN metrics : metrics[c] \in {None, Num(0)}

\* C21: Zero-counter identity.  An item whose counters are all 0, absent or
\* None scores exactly 0 under each of the three scoring functions, whatever
\* the weights.
ZeroCounterIdentity ==
    (prog \in Scorers /\ pc = "s_done" /\ AllCountersZero) => engagement = 0

\* C21 witness: a Telegram message with views and replies 0, forwards and
\* reactions None, scored 0 under weights none of which is 0
ZeroCounterIdentityWitness ==
    /\ prog = "compute_engagement_telegram" /\ pc = "s_done"
    /\ metrics.views = Num(0) /\ metrics.forwards = None
    /\ metrics.replies = Num(0) /\ metrics.reactions_total = None
    /\ weights.alpha = default_alpha /\ weights.beta = 0 - default_beta
    /\ weights.gamma = default_alpha /\ weights.delta = default_alpha
    /\ engagement = 0

\* C28: an item without a timestamp (0) is appended and never triggers the
\* window stop: the item a window stop stopped at is dated and older than the
\* cutoff, every other stop but the item cap has appended every delivered
\* item, and every item fetched or returned has no timestamp or one at or
\* after the cutoff.
NoTimestampOrInWindow(s) == \A i \in 1..Len(s) : s[i] = 0 \/ s[i] >= cutoff_dt
UndatedItemsKept ==
    prog = "instagram" =>
       /\ NoTimestampOrInWindow(fetched)
       /\ NoTimestampOrInWindow(returned)
       /\ Len(fetched) <= Len(delivered)
       /\ stop_reason = "window" =>
             /\ Len(fetched) < Len(delivered)
             /\ delivered[Len(fetched) + 1] # 0
             /\ delivered[Len(fetched) + 1] < cutoff_dt
       /\ stop_reason \notin {"window", "cap_items"} => fetched = delivered
UndatedItemsKeptWitness ==
    /\ prog = "instagram" /\ pc = "done" /\ stop_reason = "window"
    /\ returned = <<cutoff_dt, 0, 0>>
    /\ delivered = <<cutoff_dt, 0, 0, cutoff_dt - 1>>

\* the steps fetch_medias_since can still take, at most: one for the call of
\* line 192, and for each page request left one step of the loop guard and
\* `retries` attempts
StepsLeft ==
    IF pc = "done" THEN 0
    ELSE IF pc = "user_info" THEN 2 + max_pages * (retries + 1)
    ELSE IF pc = "while" THEN 1 + (max_pages - page_count) * (retries + 1)
    ELSE 1 + (max_pages - page_count) * (retries + 1) + (retries + 1 - attempt)

\* C27: Unconditional termination of the Instagram fetch.  Whatever the
\* adapter returns or raises and whatever max_fetch is, every step of
\* fetch_medias_since strictly lowers StepsLeft, which never goes below 0, so
\* the loop ends; it makes at most max_pages iterations and at most `retries`
\* attempts in each.
FetchTerminates ==
    [][prog = "instagram" =>
          /\ StepsLeft' < StepsLeft
          /\ StepsLeft' >= 0
          /\ page_count' <= max_pages
          /\ attempt' <= retries]_vars

\* C27 witness: the fetch ended in the last iteration the cap allows, on the
\* last attempt of its page request
FetchTerminatesWitness ==
    /\ prog = "instagram" /\ pc = "done" /\ stop_reason = "failed"
    /\ page_count = max_pages /\ attempt = retries

\* C25: Sequential cursor chaining.  At most one page request is outstanding,
\* and only while _api_page_fetch runs; when a request is issued every item
\* delivered before it has been processed to the end of its page (all of them
\* appended, no stop pending); the first request carries the empty start
\* cursor and every later one exactly the cursor the page before it returned.
CursorChaining ==
    prog = "instagram" =>
       /\ outstanding \in {0, 1}
       /\ outstanding = 1 <=> pc = "attempt"
       /\ pc = "attempt" =>
             /\ fetched = delivered /\ ~stop_all
             /\ page_count = 1 => cursor_sent = ""
             /\ page_count > 1 => cursor_sent = cursor_returned

\* C25 witness: the third request is outstanding and carries the cursor of
\* the second page, after two pages of two items
CursorChainingWitness ==
    /\ prog = "instagram" /\ pc = "attempt" /\ page_count = 3
    /\ Len(fetched) = 4 /\ prev_end_cursor = "A"
    /\ cursor_sent = "B" /\ cursor_returned = "B" /\ outstanding = 1

\* s is the beginning of t
IsPrefix(s, t) == Len(s) <= Len(t) /\ s = SubSeq(t, 1, Len(s))

\* C23: Fetch order is preserved.  The list a fetch builds, and the list it
\* returns, holds the kept items in the order the page source delivered them,
\* page by page and in page order within a page; as both fetches stop at the
\* first item they do not keep, the list is the beginning of the delivered
\* sequence.
FetchOrderPreserved ==
    /\ prog = "instagram" => IsPrefix(fetched, delivered)
    /\ prog = "reddit" => IsPrefix(collected, delivered)
    /\ prog \in {"instagram", "reddit"} => IsPrefix(returned, delivered)
    /\ (prog = "instagram" /\ pc = "done" /\ ~raised) => returned = fetched
    /\ (prog = "reddit" /\ pc = "done" /\ ~raised) => returned = collected

\* C23 witness: three distinguishable posts delivered over two listings
FetchOrderPreservedWitness ==
    /\ prog = "reddit" /\ pc = "done" /\ pages = 2
    /\ delivered = <<cutoff_dt + 1, cutoff_dt, cutoff_dt + 1, cutoff_dt - 1>>
    /\ returned = <<cutoff_dt + 1, cutoff_dt, cutoff_dt + 1>>

\* no element of s occurs twice
NoRepeats(s) == \A i \in 1..Len(s) : \A j \in 1..Len(s) : s[i] = s[j] => i = j

\* C26: No duplicates in the fetch result.  Over an idempotent adapter with
\* pairwise distinct items, every item appears at most once in the list
\* fetch_medias_since returns.
NoDuplicates ==
    (prog = "instagram" /\ adapter # <<>> /\ pc = "done") => NoRepeats(returned)

\* C22: End-to-end example.  Over the channel of three medias (likes 100 now,
\* likes 10 an hour ago, likes 1 a hundred hours ago), a window of three days
\* and likes weight 1.5, the fetch returns the first two medias only, and the
\* ranking pass ranks the media with 100 likes first with score
\* 1.5 * log10(101) and the media with 10 likes second with score
\* 1.5 * log10(11), however the adapter cuts the channel into pages.
ExampleRanking ==
    (prog = "instagram" /\ pc = "m_done") =>
       /\ returned = SubSeq(ExampleItems, 1, 2)
       /\ Len(items) = 2 /\ response = items
       /\ items[1].likes = 100
       /\ items[1].score = default_alpha * Log10Table[101]
       /\ items[2].likes = 10
       /\ items[2].score = default_alpha * Log10Table[11]

\* C22 witness: the ranking was printed after a fetch that got the two
\* in-window medias on the first page and the old one on the second
ExampleRankingWitness ==
    /\ prog = "instagram" /\ pc = "m_done" /\ ranked
    /\ page_count = 2 /\ stop_reason = "window"
    /\ delivered = ExampleItems
    /\ Len(response) = 2 /\ response[1].likes = 100

\* a date that is present and before the cutoff
OldDated(d) == d # 0 /\ d < cutoff_dt

\* the dated messages of s that lie in the window
InWindowRead(s) == SelectSeq(s, LAMBDA d : d # 0 /\ d >= cutoff_dt)

\* C24: Window stop in the Telegram scrape.  A dated message older than the
\* cutoff is the last message scrape_channel reads from the iterator: the
\* iteration is over once it was read, and the posts are exactly the dated
\* in-window messages read before it, one post each.
TelegramWindowStop ==
    prog \in TelegramCallers =>
       /\ \A i \in 1..(Len(msgs_read) - 1) : ~OldDated(msgs_read[i])
       /\ (msgs_read # <<>> /\ OldDated(msgs_read[Len(msgs_read)])) => pc # "t_iter"
       /\ Len(items) = Len(InWindowRead(msgs_read))

\* C24 witness: an old message was read after an in-window one and an
\* undated one with reads to spare, and the scrape ended with the one post
TelegramWindowStopWitness ==
    /\ prog = "telegram_top" /\ pc = "h_done" /\ ranked /\ tg_error = ""
    /\ msgs_read = <<cutoff_dt, 0, cutoff_dt - 1>>
    /\ Len(msgs_read) < MaxRead /\ Len(items) = 1

\* C29: Telegram scrape on an unexpected error.  When the iteration raised
\* an exception other than KeyboardInterrupt, scrape_channel is over: no
\* score was computed, no ranking printed, no out_json written, and the
\* caller gets no posts; the entries appended to out_jsonl, one per post
\* collected when out_jsonl is set, stay.
UnexpectedErrorDiscards ==
    (prog \in TelegramCallers
     /\ tg_error \in {"BotMethodInvalidError", "Exception"})
    => /\ pc = "h_done"
       /\ ~ranked /\ ~json_written
       /\ \A i \in 1..Len(items) : items[i].engagement_score = 0
       /\ prog = "telegram_top" =>
             response = [status |-> 200, top |-> <<>>, count |-> 0]
       /\ prog = "telegram_main" => response = NoResponse
       /\ jsonl_lines = (IF req.out_jsonl # "" THEN Len(items) ELSE 0)

\* C29 witness: an unexpected error after two posts were collected and
\* appended to out_jsonl, out_json being asked for
UnexpectedErrorDiscardsWitness ==
    /\ prog = "telegram_main" /\ tg_error = "Exception"
    /\ req.out_json # "" /\ req.out_jsonl # "" /\ req.top >= 1
    /\ Len(items) = 2 /\ jsonl_lines = 2 /\ items[1].views = Num(1)

====
